---- MODULE Spec2Model ----
(***************************************************************************)
(* Model of ETLPipeline (src/etl_pipeline.py): one pipeline instance, its  *)
(* metrics dictionary, the target CSV file and the SQLite table, and the   *)
(* control flow of run() through extract, transform, load_to_csv and       *)
(* load_to_db.                                                             *)
(*                                                                         *)
(* A DataFrame is [index, cols]: index is the sequence of row labels, cols *)
(* the sequence of columns [name, dtype, vals].  A cell is                 *)
(* [kind, s, n] with kind "null" (NaN/None), "num" (value n) or "str"      *)
(* (value s).  dtype is "num" (int64/float64) or "object", the dtype of     *)
(* text columns that select_dtypes(include=['object']) selects.            *)
(*                                                                         *)
(* Spec is the whole pipeline over repeated calls of run().  SpecTransform *)
(* is a run() up to the end of its transform stage, over larger inputs.    *)
(***************************************************************************)
EXTENDS Integers, Sequences, FiniteSets, TLC

\* ---------------------------------------------------------------- bounds
\* largest input of the transform-stage specification (SpecTransform)
MaxRows == 2
MaxCols == 2
\* largest input of the whole-pipeline specification (Spec)
MaxRunRows == 2
MaxRunCols == 1
\* calls of run() on the instance
MaxRuns == 2

\* ------------------------------------------------------------- constants
\* header written by generate_sample_data; input columns take these names
\* by position
ColNames == <<"id", "name", "age", "email", "purchase_amount">>

\* source_path as its path components
source_path == <<"data", "sample_data.csv">>

\* the default table name of load_to_db
table_name == "processed_data"

None == "None"

\* ------------------------------------------------------------ cell values
NullCell == [kind |-> "null", s |-> "", n |-> 0]
Num(k) == [kind |-> "num", s |-> "", n |-> k]
Str(t) == [kind |-> "str", s |-> t, n |-> 0]

\* the strings of the model that pd.to_numeric parses, with their values
NumericLiterals == ("07" :> 7) @@ ("5" :> 5)

NumCells == {Num(5), NullCell}
ObjCells == {Str("07"), Str("x"), NullCell}

\* --------------------------------------------------------------- helpers
Positions(n) == [i \in 1..n |-> i]

Take(seq, kept) == [k \in 1..Len(kept) |-> seq[kept[k]]]

Last(seq) == seq[Len(seq)]

Min(a, b) == IF a < b THEN a ELSE b

\* dict[key] = value
SetItem(d, key, value) ==
    [x \in (DOMAIN d) \cup {key} |-> IF x = key THEN value ELSE d[x]]

HasKey(d, key) == key \in DOMAIN d

\* ------------------------------------------------------------ DataFrames
\* the columns of r values read_csv can produce: numeric, or object
ColumnBodies(r) ==
    [dtype : {"num"}, vals : [1..r -> NumCells]] \cup
    [dtype : {"object"}, vals : [1..r -> ObjCells]]

\* the DataFrames pd.read_csv can return with r rows and c columns: a
\* RangeIndex 0..r-1 and columns with distinct names
FramesOf(r, c) ==
    { [index |-> [i \in 1..r |-> i - 1],
       cols  |-> [j \in 1..c |-> [name  |-> ColNames[j],
                                  dtype |-> b[j].dtype,
                                  vals  |-> b[j].vals]]] :
        b \in [1..c -> ColumnBodies(r)] }

NRows(df) == Len(df.index)

ColumnNames(df) == [j \in 1..Len(df.cols) |-> df.cols[j].name]

HasColumn(df, name) == \E j \in 1..Len(df.cols) : df.cols[j].name = name

\* df[name]
GetColumn(df, name) ==
    df.cols[CHOOSE j \in 1..Len(df.cols) : df.cols[j].name = name]

\* df[name] = vals : replaces the column of that name, or appends a new one
SetColumn(df, name, dtype, vals) ==
    LET col == [name |-> name, dtype |-> dtype, vals |-> vals]
    IN  IF HasColumn(df, name)
        THEN [df EXCEPT !.cols = [j \in 1..Len(df.cols) |->
                                     IF df.cols[j].name = name THEN col ELSE df.cols[j]]]
        ELSE [df EXCEPT !.cols = Append(df.cols, col)]

\* df[name] = scalar
Broadcast(df, cell) == [p \in 1..NRows(df) |-> cell]

RowHasNull(df, p) == \E j \in 1..Len(df.cols) : df.cols[j].vals[p].kind = "null"

\* dropna(how='all'): drops only the rows in which every value is null
DropnaHowAll(df) ==
    LET kept == SelectSeq(Positions(NRows(df)),
                          LAMBDA p : \E j \in 1..Len(df.cols) : df.cols[j].vals[p].kind # "null")
    IN  [index |-> Take(df.index, kept),
         cols  |-> [j \in 1..Len(df.cols) |->
                       [df.cols[j] EXCEPT !.vals = Take(df.cols[j].vals, kept)]]]

\* data.dropna(): drops every row holding a null, keeps labels and order
Dropna(df) ==
    LET kept == SelectSeq(Positions(NRows(df)), LAMBDA p : ~RowHasNull(df, p))
    IN  [index |-> Take(df.index, kept),
         cols  |-> [j \in 1..Len(df.cols) |->
                       [df.cols[j] EXCEPT !.vals = Take(df.cols[j].vals, kept)]]]

\* data.select_dtypes(include=['object']).columns
SelectObjectColumns(df) ==
    LET js == SelectSeq(Positions(Len(df.cols)), LAMBDA j : df.cols[j].dtype = "object")
    IN  [k \in 1..Len(js) |-> df.cols[js[k]].name]

\* pd.to_numeric on one value raises unless the value is a number or a
\* string that reads as one
CanParse(cell) ==
    \/ cell.kind = "num"
    \/ cell.kind = "str" /\ cell.s \in DOMAIN NumericLiterals

ParseCell(cell) == IF cell.kind = "str" THEN Num(NumericLiterals[cell.s]) ELSE cell

\* pd.to_numeric(col, errors='coerce'): converts what parses, NaN elsewhere
CoerceToNumeric(col) ==
    [col EXCEPT !.dtype = "num",
                !.vals = [p \in DOMAIN col.vals |->
                            IF CanParse(col.vals[p]) THEN ParseCell(col.vals[p]) ELSE NullCell]]

\* the try/except around pd.to_numeric(col, errors='raise') and the
\* assignment of the converted column
TryToNumeric(col) ==
    IF \A p \in DOMAIN col.vals : CanParse(col.vals[p])
    THEN [col EXCEPT !.dtype = "num",
                     !.vals = [p \in DOMAIN col.vals |-> ParseCell(col.vals[p])]]
    ELSE col

\* the loop over the object columns of data_cleaned
ConvertColumns(df) ==
    [df EXCEPT !.cols = [j \in 1..Len(df.cols) |->
                            IF df.cols[j].dtype = "object"
                            THEN TryToNumeric(df.cols[j])
                            ELSE df.cols[j]]]

\* datetime.isoformat() of the clock reading k, and its inverse
IsoFormat(k) == "T" \o ToString(k)

MaxClock == 3 * MaxRuns

FromIsoFormat(t) == CHOOSE k \in 0..MaxClock : IsoFormat(k) = t

\* os.path.basename
Basename(path) == Last(path)

\* value.astype(str)
AsTypeStr(cell) ==
    IF cell.kind = "str" THEN cell.s
    ELSE IF cell.kind = "num" THEN ToString(cell.n)
    ELSE "nan"

\* the two metadata columns
Enrich(df, now) ==
    LET d1 == SetColumn(df, "etl_timestamp", "object", Broadcast(df, Str(IsoFormat(now))))
    IN  SetColumn(d1, "source_file", "object", Broadcast(d1, Str(Basename(source_path))))

\* the combined_field step
Combine(df) ==
    LET objs == SelectObjectColumns(df)
        text_columns == SubSeq(objs, 1, Min(2, Len(objs)))
    IN  IF Len(text_columns) >= 2
        THEN LET c1 == GetColumn(df, text_columns[1])
                 c2 == GetColumn(df, text_columns[2])
             IN  SetColumn(df, "combined_field", "object",
                           [p \in 1..NRows(df) |->
                               Str(AsTypeStr(c1.vals[p]) \o " - " \o AsTypeStr(c2.vals[p]))])
        ELSE df

\* the DataFrame transform() returns
TransformFrame(df, now) == Combine(Enrich(ConvertColumns(Dropna(df)), now))

\* as TransformMetrics, with rows_processed taken before the cleaning
MetricsProcessedIsOriginal(m, original_count, cleaned_count) ==
    SetItem(SetItem(m, "rows_filtered", m["rows_filtered"] + (original_count - cleaned_count)),
            "rows_processed", original_count)

\* the metrics transform() leaves behind
TransformMetrics(m, original_count, cleaned_count) ==
    SetItem(SetItem(m, "rows_filtered", m["rows_filtered"] + (original_count - cleaned_count)),
            "rows_processed", cleaned_count)

\* data.to_csv(path, index=False): header line, then one line of text
\* fields per row
ToCsv(df) ==
    [header |-> ColumnNames(df),
     rows   |-> [p \in 1..NRows(df) |->
                    [j \in 1..Len(df.cols) |->
                        IF df.cols[j].vals[p].kind = "null" THEN ""
                        ELSE AsTypeStr(df.cols[j].vals[p])]]]

NoFile == [exists |-> FALSE, content |-> [header |-> <<>>, rows |-> <<>>]]
EmptyFile == [exists |-> TRUE, content |-> [header |-> <<>>, rows |-> <<>>]]

\* data.to_sql(table_name, conn, if_exists='replace', index=False)
NoTable == [exists |-> FALSE, name |-> table_name, cols |-> <<>>, nrows |-> 0]

ToSql(df) == [exists |-> TRUE, name |-> table_name, cols |-> df.cols, nrows |-> NRows(df)]

\* the table as created and committed when the insert then fails
ToSqlCreated(df) ==
    [exists |-> TRUE, name |-> table_name,
     cols |-> [j \in 1..Len(df.cols) |-> [df.cols[j] EXCEPT !.vals = <<>>]],
     nrows |-> 0]

\* ------------------------------------------------------------ exceptions
\* the direct base class of each exception type of the model
BaseOf ==
    ("FileNotFoundError" :> "OSError") @@ ("PermissionError" :> "OSError") @@
    ("OSError" :> "Exception") @@ ("EmptyDataError" :> "ValueError") @@
    ("ValueError" :> "Exception") @@ ("MemoryError" :> "Exception") @@
    ("OperationalError" :> "DatabaseError") @@ ("DatabaseError" :> "Error") @@
    ("Error" :> "Exception") @@ ("Exception" :> "BaseException")

RECURSIVE IsInstance(_, _)
IsInstance(type, cls) ==
    \/ type = cls
    \/ type \in DOMAIN BaseOf /\ IsInstance(BaseOf[type], cls)

NoExc == [type |-> "", msg |-> ""]

ExtractErrors ==
    { [type |-> "FileNotFoundError", msg |-> "No such file or directory"],
      [type |-> "EmptyDataError", msg |-> "No columns to parse from file"] }

TransformErrors == { [type |-> "MemoryError", msg |-> "Unable to allocate array"] }

CsvErrors == { [type |-> "PermissionError", msg |-> "Permission denied"] }

DbConnectErrors == { [type |-> "OperationalError", msg |-> "unable to open database file"] }

DbWriteErrors == { [type |-> "OperationalError", msg |-> "database or disk is full"] }

\* "except OSError as e"
CatchesOSErrorOnly(e) == IsInstance(e.type, "OSError")

\* "except Exception as e" of run()
Catches(e) == IsInstance(e.type, "Exception")

\* ----------------------------------------------------------------- state
VARIABLES
    src,               \* what pd.read_csv(source_path) parses when it succeeds
    pc,                \* position of the caller / of run()
    metrics,           \* self.metrics
    clock,             \* number of datetime.now() readings so far
    data,              \* run()'s local: the extracted DataFrame
    transformed_data,  \* run()'s local: the transformed DataFrame
    exc,               \* the exception in flight
    target_file,       \* the file at target_path
    db,                \* the table table_name in the database at db_path
    count,             \* the SELECT COUNT(*) result of the last load_to_db
    runs,              \* calls of run() so far
    stages,            \* stages executed by the current run(), with outcome
    transform_calls,   \* calls of transform() so far
    transform_done     \* calls of transform() that returned

vars == <<src, pc, metrics, clock, data, transformed_data, exc, target_file, db,
          count, runs, stages, transform_calls, transform_done>>

EmptyFrame == [index |-> <<>>, cols |-> <<>>]

\* __init__
InitMetrics ==
    [x \in {"rows_processed", "rows_filtered", "rows_with_errors", "start_time", "end_time"} |->
        IF x \in {"start_time", "end_time"} THEN None ELSE 0]

InitFrom(maxr, maxc) ==
    /\ \E r \in 0..maxr : \E c \in 1..maxc : src \in FramesOf(r, c)
    /\ pc = "idle"
    /\ metrics = InitMetrics
    /\ clock = 0
    /\ data = EmptyFrame
    /\ transformed_data = EmptyFrame
    /\ exc = NoExc
    /\ target_file = NoFile
    /\ db = NoTable
    /\ count = 0
    /\ runs = 0
    /\ stages = <<>>
    /\ transform_calls = 0
    /\ transform_done = 0

Init == InitFrom(MaxRunRows, MaxRunCols)

InitTransform == InitFrom(MaxRows, MaxCols)

StageOrder == <<"extract", "transform", "load_to_csv", "load_to_db">>

\* a try block that carries on with the next stage after a failure
AfterStageSwallow(stage, ok) ==
    IF stage = "extract" THEN "transform"
    ELSE IF stage = "transform" THEN "load_to_csv"
    ELSE IF stage = "load_to_csv" THEN "load_to_db"
    ELSE "finish"

\* where the try block of run() goes after a stage
AfterStage(stage, ok) ==
    IF ~ok THEN "except"
    ELSE IF stage = "extract" THEN "transform"
    ELSE IF stage = "transform" THEN "load_to_csv"
    ELSE IF stage = "load_to_csv" THEN "load_to_db"
    ELSE "finish"

Log(stage, ok) == Append(stages, [stage |-> stage, ok |-> ok])

\* an entry of run() that starts from a fresh metrics dictionary
RunEntryFresh(m, now) == SetItem(InitMetrics, "start_time", IsoFormat(now))

\* entry of run(): start_time is stamped on the instance's metrics
RunEntry(m, now) == SetItem(m, "start_time", IsoFormat(now))

Run ==
    /\ pc \in {"idle", "returned", "raised"}
    /\ runs < MaxRuns
    /\ runs' = runs + 1
    /\ clock' = clock + 1
    /\ metrics' = RunEntry(metrics, clock')
    /\ stages' = <<>>
    /\ exc' = NoExc
    /\ pc' = "extract"
    /\ UNCHANGED <<src, data, transformed_data, target_file, db, count,
                   transform_calls, transform_done>>

\* extract(): pd.read_csv returns the frame, or raises and extract re-raises
Extract ==
    /\ pc = "extract"
    /\ \/ /\ data' = src
          /\ exc' = exc
          /\ stages' = Log("extract", TRUE)
          /\ pc' = AfterStage("extract", TRUE)
       \/ /\ \E e \in ExtractErrors : exc' = e
          /\ data' = data
          /\ stages' = Log("extract", FALSE)
          /\ pc' = AfterStage("extract", FALSE)
    /\ UNCHANGED <<src, metrics, clock, transformed_data, target_file, db, count, runs,
                   transform_calls, transform_done>>

\* transform(data): returns the transformed frame, or an unexpected error of
\* a pandas call propagates, before or after rows_filtered was updated
Transform ==
    /\ pc = "transform"
    /\ transform_calls' = transform_calls + 1
    /\ \/ /\ clock' = clock + 1
          /\ transformed_data' = TransformFrame(data, clock')
          /\ metrics' = TransformMetrics(metrics, NRows(data), NRows(Dropna(data)))
          /\ transform_done' = transform_done + 1
          /\ exc' = exc
          /\ stages' = Log("transform", TRUE)
          /\ pc' = AfterStage("transform", TRUE)
       \/ /\ \E e \in TransformErrors : exc' = e
          /\ \/ metrics' = metrics
             \/ metrics' = SetItem(metrics, "rows_filtered",
                                   metrics["rows_filtered"] + (NRows(data) - NRows(Dropna(data))))
          /\ UNCHANGED <<clock, transformed_data, transform_done>>
          /\ stages' = Log("transform", FALSE)
          /\ pc' = AfterStage("transform", FALSE)
    /\ UNCHANGED <<src, data, target_file, db, count, runs>>

\* load_to_csv(transformed_data): the file is overwritten, or the open
\* fails (file untouched), or the write fails after the file was truncated
LoadToCsv ==
    /\ pc = "load_to_csv"
    /\ \/ /\ target_file' = [exists |-> TRUE, content |-> ToCsv(transformed_data)]
          /\ exc' = exc
          /\ stages' = Log("load_to_csv", TRUE)
          /\ pc' = AfterStage("load_to_csv", TRUE)
       \/ /\ \E e \in CsvErrors : exc' = e
          /\ target_file' \in {target_file, EmptyFile}
          /\ stages' = Log("load_to_csv", FALSE)
          /\ pc' = AfterStage("load_to_csv", FALSE)
    /\ UNCHANGED <<src, metrics, clock, data, transformed_data, db, count, runs,
                   transform_calls, transform_done>>

\* the row count SELECT COUNT(*) returns: the rows just written, or more
\* when another writer of the database inserted in between
CountResults(df) == {NRows(df), NRows(df) + 1}

\* load_to_db(transformed_data): connect, replace the table, count the rows
LoadToDb ==
    /\ pc = "load_to_db"
    /\ \/ /\ db' = ToSql(transformed_data)
          /\ count' \in CountResults(transformed_data)
          /\ exc' = exc
          /\ stages' = Log("load_to_db", TRUE)
          /\ pc' = AfterStage("load_to_db", TRUE)
       \/ /\ \E e \in DbConnectErrors : exc' = e
          /\ UNCHANGED <<db, count>>
          /\ stages' = Log("load_to_db", FALSE)
          /\ pc' = AfterStage("load_to_db", FALSE)
       \/ /\ \E e \in DbWriteErrors : exc' = e
          /\ db' = ToSqlCreated(transformed_data)
          /\ count' = count
          /\ stages' = Log("load_to_db", FALSE)
          /\ pc' = AfterStage("load_to_db", FALSE)
    /\ UNCHANGED <<src, metrics, clock, data, transformed_data, target_file, runs,
                   transform_calls, transform_done>>

\* the end of the try block: end_time, execution_time_seconds, return
Finish ==
    /\ pc = "finish"
    /\ clock' = clock + 1
    /\ LET m1 == SetItem(metrics, "end_time", IsoFormat(clock'))
           start == FromIsoFormat(m1["start_time"])
           end == FromIsoFormat(m1["end_time"])
       IN  metrics' = SetItem(m1, "execution_time_seconds", end - start)
    /\ pc' = "returned"
    /\ UNCHANGED <<src, data, transformed_data, exc, target_file, db, count, runs, stages,
                   transform_calls, transform_done>>

\* an except clause that also removes the file at target_path
OnFailureCleanup(m, f, e, now) ==
    [metrics |-> SetItem(SetItem(SetItem(m, "end_time", IsoFormat(now)), "status", "failed"),
                         "error", e.msg),
     target_file |-> NoFile]

\* the except clause of run(): what it leaves in the metrics and at
\* target_path
OnFailure(m, f, e, now) ==
    [metrics |-> SetItem(SetItem(SetItem(m, "end_time", IsoFormat(now)), "status", "failed"),
                         "error", e.msg),
     target_file |-> f]

Except ==
    /\ pc = "except"
    /\ IF Catches(exc)
       THEN /\ clock' = clock + 1
            /\ metrics' = OnFailure(metrics, target_file, exc, clock').metrics
            /\ target_file' = OnFailure(metrics, target_file, exc, clock').target_file
            /\ pc' = "returned"
       ELSE /\ pc' = "raised"
            /\ UNCHANGED <<clock, metrics, target_file>>
    /\ UNCHANGED <<src, data, transformed_data, exc, db, count, runs, stages,
                   transform_calls, transform_done>>

Next == Run \/ Extract \/ Transform \/ LoadToCsv \/ LoadToDb \/ Finish \/ Except

Spec == Init /\ [][Next]_vars

\* a run() up to the end of its transform stage, over the larger inputs
NextTransform == Run \/ Extract \/ Transform

SpecTransform == InitTransform /\ [][NextTransform]_vars

\* ---------------------------------------------------------------- claims
StageOk(name) == \E i \in 1..Len(stages) : stages[i] = [stage |-> name, ok |-> TRUE]

StageFailed(name) == \E i \in 1..Len(stages) : stages[i] = [stage |-> name, ok |-> FALSE]

\* positions of the rows of df that hold no null
GoodRows(df) ==
    { p \in 1..NRows(df) : \A j \in 1..Len(df.cols) : df.cols[j].vals[p].kind # "null" }

\* C1: run() never raises to its caller; whenever a stage of the run failed,
\* run() returns with metrics status "failed", error equal to the message of
\* the error that stage raised, and end_time stamped by the handler.
C1_RunNeverRaises ==
    /\ pc # "raised"
    /\ (pc = "returned" /\ stages # <<>> /\ ~Last(stages).ok) =>
          /\ HasKey(metrics, "status") /\ metrics["status"] = "failed"
          /\ HasKey(metrics, "error") /\ metrics["error"] = exc.msg
          /\ metrics["end_time"] = IsoFormat(clock)

C1_Witness ==
    /\ pc = "returned"
    /\ StageOk("load_to_csv")
    /\ StageFailed("load_to_db")
    /\ metrics["end_time"] # None
    /\ HasKey(metrics, "error") /\ metrics["error"] = "database or disk is full"

\* C2: in every step of a run the stages executed so far are an initial part
\* of extract, transform, load_to_csv, load_to_db, every stage but the last
\* one executed has completed without failure (so none runs after a failed
\* one), and while the run's extract has failed neither the target file nor
\* the store table changes.
C2_StagesInOrder ==
    [][ /\ Len(stages') <= Len(StageOrder)
        /\ \A i \in 1..Len(stages') : stages'[i].stage = StageOrder[i]
        /\ \A i \in 1..(Len(stages') - 1) : stages'[i].ok
        /\ (stages' # <<>> /\ ~stages'[1].ok) => (target_file' = target_file /\ db' = db)
      ]_vars

C2_Witness ==
    /\ pc = "returned"
    /\ stages = <<[stage |-> "extract", ok |-> FALSE]>>
    /\ ~target_file.exists
    /\ ~db.exists
    /\ metrics["status"] = "failed"

\* C3: after exactly one call of transform() on the instance, and once it has
\* returned, rows_processed + rows_filtered is the row count of its input.
C3_RowsAccounted ==
    (transform_calls = 1 /\ transform_done = 1) =>
        metrics["rows_processed"] + metrics["rows_filtered"] = NRows(data)

C3_Witness ==
    /\ transform_calls = 1
    /\ transform_done = 1
    /\ metrics["rows_filtered"] = 1
    /\ metrics["rows_processed"] = 1

\* C4 (as claimed): combined_field is in the output exactly when at least
\* two of the input's columns are still text-typed after the numeric
\* conversion, and then each row holds "<col1> - <col2>" of the first two.
C4_Claim ==
    StageOk("transform") =>
        LET out == transformed_data
            text == SelectSeq(Positions(Len(data.cols)),
                              LAMBDA j : out.cols[j].dtype = "object")
        IN  /\ HasColumn(out, "combined_field") <=> Len(text) >= 2
            /\ Len(text) >= 2 =>
                  \A p \in 1..NRows(out) :
                      GetColumn(out, "combined_field").vals[p] =
                          Str(out.cols[text[1]].vals[p].s \o " - " \o out.cols[text[2]].vals[p].s)

\* C5 (as claimed): for an all-numeric input the output has no
\* combined_field and its columns are the input's columns followed by
\* etl_timestamp and source_file.
C5_Claim ==
    (StageOk("transform") /\ \A j \in 1..Len(data.cols) : data.cols[j].dtype = "num") =>
        /\ ~HasColumn(transformed_data, "combined_field")
        /\ ColumnNames(transformed_data) = ColumnNames(data) \o <<"etl_timestamp", "source_file">>

\* C6: an object column of the input comes out numeric, with every value
\* replaced by the number it reads as, if and only if every value it holds in
\* the rows that survive filtering parses as a number; otherwise it comes out
\* as object with exactly the surviving values.
C6_AllOrNothing ==
    StageOk("transform") =>
        \A j \in 1..Len(data.cols) :
            data.cols[j].dtype = "object" =>
                LET out == transformed_data.cols[j]
                    orig(k) == data.cols[j].vals[transformed_data.index[k] + 1]
                IN  IF \A p \in GoodRows(data) : data.cols[j].vals[p].kind = "num"
                                                  \/ data.cols[j].vals[p].s \in DOMAIN NumericLiterals
                    THEN /\ out.dtype = "num"
                         /\ Len(out.vals) = Cardinality(GoodRows(data))
                         /\ \A k \in 1..Len(out.vals) :
                               /\ out.vals[k].kind = "num"
                               /\ orig(k).kind = "str" => out.vals[k].n = NumericLiterals[orig(k).s]
                    ELSE /\ out.dtype = "object"
                         /\ Len(out.vals) = Cardinality(GoodRows(data))
                         /\ \A k \in 1..Len(out.vals) : out.vals[k] = orig(k)

C6_Witness ==
    /\ StageOk("transform")
    /\ Len(data.cols) = 2
    /\ NRows(transformed_data) = 2
    /\ data.cols[1].dtype = "object" /\ transformed_data.cols[1].dtype = "num"
    /\ data.cols[2].dtype = "object" /\ transformed_data.cols[2].dtype = "object"
    /\ data.cols[2].vals = <<Str("07"), Str("x")>>

\* C7: the output's rows are exactly the input rows without a null, in input
\* order: a row label is in the output iff its row has no null, the labels
\* ascend, and each output row holds its input row's values (as read, or as
\* converted to numbers).
C7_RowFiltering ==
    StageOk("transform") =>
        LET out == transformed_data
        IN  /\ \A p \in 1..NRows(data) :
                  (p \in GoodRows(data)) <=> (\E k \in 1..NRows(out) : out.index[k] = data.index[p])
            /\ \A k1, k2 \in 1..NRows(out) : k1 < k2 => out.index[k1] < out.index[k2]
            /\ \A j \in 1..Len(out.cols) : Len(out.cols[j].vals) = NRows(out)
            /\ \A k \in 1..NRows(out) : \A j \in 1..Len(data.cols) :
                  LET orig == data.cols[j].vals[out.index[k] + 1]
                  IN  \/ out.cols[j].vals[k] = orig
                      \/ /\ orig.kind = "str"
                         /\ orig.s \in DOMAIN NumericLiterals
                         /\ out.cols[j].vals[k] = Num(NumericLiterals[orig.s])

C7_Witness ==
    /\ StageOk("transform")
    /\ NRows(data) = 2
    /\ Len(data.cols) = 2
    /\ data.cols[1].vals[1].kind # "null"
    /\ data.cols[2].vals[1].kind = "null"
    /\ transformed_data.index = <<1>>

\* C8: when the run's load_to_csv succeeded and its load_to_db failed, run()
\* returns status "failed" and the file written by load_to_csv is still at
\* the target path.
C8_CsvLeftInPlace ==
    (pc = "returned" /\ StageOk("load_to_csv") /\ StageFailed("load_to_db")) =>
        /\ metrics["status"] = "failed"
        /\ target_file.exists
        /\ target_file.content.header = ColumnNames(transformed_data)
        /\ Len(target_file.content.rows) = NRows(transformed_data)

C8_Witness ==
    /\ pc = "returned"
    /\ StageOk("load_to_csv")
    /\ StageFailed("load_to_db")
    /\ target_file.exists
    /\ Len(target_file.content.rows) = 2
    /\ target_file.content.header = <<"id", "etl_timestamp", "source_file", "combined_field">>
    /\ HasKey(metrics, "status")

\* C9 (as claimed): whenever load_to_db wrote the table and read the count
\* back, matching or not, run() returns metrics without status "failed".
C9_Claim ==
    (pc = "returned" /\ StageOk("load_to_db")) =>
        ~(HasKey(metrics, "status") /\ metrics["status"] = "failed")

\* C10: status and error are never cleared: once the metrics hold status
\* "failed" they hold it, with an error message, after every later step, so
\* also when a later run() returns after four successful stages.
C10_StatusNeverCleared ==
    [][ HasKey(metrics, "status") =>
            /\ HasKey(metrics', "status") /\ metrics'["status"] = "failed"
            /\ HasKey(metrics', "error")
      ]_vars

C10_Witness ==
    /\ runs = 2
    /\ pc = "returned"
    /\ StageOk("load_to_db")
    /\ HasKey(metrics, "execution_time_seconds")
    /\ metrics["status"] = "failed"
    /\ metrics["error"] = "No such file or directory"

====
